---- MODULE Spec2Model ----
(***************************************************************************)
(* The frame message pipeline of the render engine: RenderProducer          *)
(* (src/src/render/message/producer.rs) accumulating per-kind commands in   *)
(* a RenderFrame, resolving tokens through one IndexMap per kind, and       *)
(* publishing whole frames through a bounded single-producer /              *)
(* single-consumer queue to the render thread.                              *)
(***************************************************************************)
EXTENDS Integers, Sequences, FiniteSets, TLC

VARIABLES
    frame,          \* RenderProducer.frame: the in-progress RenderFrame
    map_rect,       \* RenderProducer.map_rect: IndexMap of the quads
    map_triangle,   \* RenderProducer.map_triangle: IndexMap of the triangles
    queue,          \* contents of the bounded queue behind render_producer
    capacity,       \* capacity the queue was made with
    pc,             \* producer position: "idle", or "push" inside send()
    pending,        \* the local `frame` of send() while push() is blocked
    consumed,       \* frames the consumer has popped, in the order popped
    log,            \* history: the producer calls that took effect, in order
    ret,            \* the last producer call and how it ended
    budget,         \* how many calls that take effect the client makes in this run
    consumer,       \* the consumer end of the queue: "running" or "closed"
    tex,            \* one Texture::sub_texture call: its inputs, then its outcome
    ui              \* the UIEngine of the tetris example: its fields and call history

vars == <<frame, map_rect, map_triangle, queue, capacity, pc, pending, consumed, log, ret,
          budget, consumer, tex, ui>>

\* ---------------------------------------------------------------- bounds
MaxOps == 4             \* producer calls that take effect in one run of Spec
MaxQuadOps == 6         \* the same in one run of SpecQuads (quad calls only)
MaxCapacity == 2        \* largest queue capacity tried
MaxTranslation == 2     \* distinct translation vectors

\* pos, size / height and color are payload the producer copies into the
\* message without reading it: one abstract value stands for it.
Params == {0}
Translations == 1..MaxTranslation

\* ------------------------------------------------------- Option<T> values
None == <<>>
Some(v) == <<v>>

\* --------------------------------------------- utility::slotmap::IndexMap
\* table[t + 1] is Some(index) while token t is live and None once removed;
\* free is the stack of reclaimable indices; Len(table) is the token counter.
IndexMap_new == [table |-> <<>>, free |-> <<>>]

IndexMap_live(m) == {t \in 0..(Len(m.table) - 1) : m.table[t + 1] # None}

IndexMap_contains(m, token) == token \in IndexMap_live(m)

IndexMap_get(m, token) == m.table[token + 1][1]

IndexMap_next_index(m) == Cardinality(IndexMap_live(m)) + Len(m.free)

IndexMap_add_index(m) ==
    IF m.free # <<>> THEN m.free[Len(m.free)] ELSE IndexMap_next_index(m)

IndexMap_add_token(m) == Len(m.table)

\* IndexMap_add reusing the top of the free stack without popping it.
IndexMap_add_no_pop(m) ==
    [table |-> Append(m.table, Some(IndexMap_add_index(m))), free |-> m.free]

IndexMap_add(m) ==
    [table |-> Append(m.table, Some(IndexMap_add_index(m))),
     free  |-> IF m.free # <<>> THEN SubSeq(m.free, 1, Len(m.free) - 1) ELSE m.free]

\* IndexMap_remove closing the gap: every index above the freed one moves
\* down by one.
IndexMap_remove_compacting(m, token) ==
    [table |-> [t \in 1..Len(m.table) |->
                   IF t = token + 1 \/ m.table[t] = None THEN None
                   ELSE IF m.table[t][1] > IndexMap_get(m, token)
                        THEN Some(m.table[t][1] - 1) ELSE m.table[t]],
     free  |-> m.free]

IndexMap_remove(m, token) ==
    [table |-> [m.table EXCEPT ![token + 1] = None],
     free  |-> Append(m.free, IndexMap_get(m, token))]

\* ------------------------------------------------- messages and the frame
Create(p) == [type |-> "Create", p |-> p]
Update(id, p) == [type |-> "Update", id |-> id, p |-> p]
Remove(id) == [type |-> "Remove", id |-> id]

RenderFrame_new == [quads |-> <<>>, triangles |-> <<>>, translation |-> None]

\* ------------------------------------------------------ calls and history
Call(op, kind, tok, idx, p) == [op |-> op, kind |-> kind, tok |-> tok, idx |-> idx, p |-> p]
Ret(op, kind, tok, src, res) == [op |-> op, kind |-> kind, tok |-> tok, src |-> src, res |-> res]

\* A token value the caller can pass, with the create call that issued it:
\* both kinds hand out IndexToken values; "none" is a value never issued.
Issued(m) == 0..(Len(m.table) - 1)
NeverIssued ==
    IF Len(map_rect.table) >= Len(map_triangle.table)
    THEN Len(map_rect.table) ELSE Len(map_triangle.table)
Held ==
    ({"rect"} \X Issued(map_rect)) \cup ({"triangle"} \X Issued(map_triangle))
        \cup {<<"none", NeverIssued>>}

\* No sub_texture call is under way.
NoTextureCall == [phase |-> "none"]

\* No UIEngine has been made.
NoUIEngine == [phase |-> "none"]

Init ==
    /\ frame = RenderFrame_new
    /\ map_rect = IndexMap_new
    /\ map_triangle = IndexMap_new
    /\ queue = <<>>
    /\ capacity \in 1..MaxCapacity
    /\ pc = "idle"
    /\ pending = RenderFrame_new
    /\ consumed = <<>>
    /\ log = <<>>
    /\ ret = Ret("new", "none", 0, "none", "ok")
    /\ budget = MaxOps
    /\ consumer = "running"
    /\ tex = NoTextureCall
    /\ ui = NoUIEngine

Ready == pc = "idle" /\ Len(log) < budget

\* ------------------------------------------------------------------ quads
create_rect(p) ==
    /\ Ready
    /\ frame' = [frame EXCEPT !.quads = Append(@, Create(p))]
    /\ map_rect' = IndexMap_add(map_rect)
    /\ log' = Append(log, Call("create", "rect", IndexMap_add_token(map_rect),
                               IndexMap_add_index(map_rect), p))
    /\ ret' = Ret("create", "rect", IndexMap_add_token(map_rect), "rect", "ok")
    /\ UNCHANGED <<map_triangle, queue, capacity, pc, pending, consumed, budget, consumer, tex, ui>>

\* update_rect appending its message at the head of the list.
update_rect_at_head(src, token, p) ==
    /\ Ready
    /\ IF IndexMap_contains(map_rect, token)
       THEN /\ frame' = [frame EXCEPT !.quads =
                            <<Update(IndexMap_get(map_rect, token), p)>> \o @]
            /\ log' = Append(log, Call("update", "rect", token,
                                       IndexMap_get(map_rect, token), p))
            /\ ret' = Ret("update", "rect", token, src, "ok")
       ELSE /\ ret' = Ret("update", "rect", token, src, "InvalidToken")
            /\ UNCHANGED <<frame, log>>
    /\ UNCHANGED <<map_rect, map_triangle, queue, capacity, pc, pending, consumed, budget, consumer, tex, ui>>

\* update_rect resolving its token through map_triangle.
update_rect_other_map(src, token, p) ==
    /\ Ready
    /\ IF IndexMap_contains(map_triangle, token)
       THEN /\ frame' = [frame EXCEPT !.quads =
                            Append(@, Update(IndexMap_get(map_triangle, token), p))]
            /\ log' = Append(log, Call("update", "rect", token,
                                       IndexMap_get(map_triangle, token), p))
            /\ ret' = Ret("update", "rect", token, src, "ok")
       ELSE /\ ret' = Ret("update", "rect", token, src, "InvalidToken")
            /\ UNCHANGED <<frame, log>>
    /\ UNCHANGED <<map_rect, map_triangle, queue, capacity, pc, pending, consumed, budget, consumer, tex, ui>>

\* update_rect skipping the message of a token that does not resolve, and
\* returning normally.
update_rect_ignoring(src, token, p) ==
    /\ Ready
    /\ IF IndexMap_contains(map_rect, token)
       THEN /\ frame' = [frame EXCEPT !.quads =
                            Append(@, Update(IndexMap_get(map_rect, token), p))]
            /\ log' = Append(log, Call("update", "rect", token,
                                       IndexMap_get(map_rect, token), p))
            /\ ret' = Ret("update", "rect", token, src, "ok")
       ELSE /\ ret' = Ret("update", "rect", token, src, "ok")
            /\ UNCHANGED <<frame, log>>
    /\ UNCHANGED <<map_rect, map_triangle, queue, capacity, pc, pending, consumed, budget, consumer, tex, ui>>

\* update_rect resolving its token with remove() instead of get().
update_rect_with_remove(src, token, p) ==
    /\ Ready
    /\ IF IndexMap_contains(map_rect, token)
       THEN /\ frame' = [frame EXCEPT !.quads =
                            Append(@, Update(IndexMap_get(map_rect, token), p))]
            /\ map_rect' = IndexMap_remove(map_rect, token)
            /\ log' = Append(log, Call("update", "rect", token,
                                       IndexMap_get(map_rect, token), p))
            /\ ret' = Ret("update", "rect", token, src, "ok")
       ELSE /\ ret' = Ret("update", "rect", token, src, "InvalidToken")
            /\ UNCHANGED <<frame, map_rect, log>>
    /\ UNCHANGED <<map_triangle, queue, capacity, pc, pending, consumed, budget, consumer, tex, ui>>

update_rect(src, token, p) ==
    /\ Ready
    /\ IF IndexMap_contains(map_rect, token)
       THEN /\ frame' = [frame EXCEPT !.quads =
                            Append(@, Update(IndexMap_get(map_rect, token), p))]
            /\ log' = Append(log, Call("update", "rect", token,
                                       IndexMap_get(map_rect, token), p))
            /\ ret' = Ret("update", "rect", token, src, "ok")
       ELSE /\ ret' = Ret("update", "rect", token, src, "InvalidToken")
            /\ UNCHANGED <<frame, log>>
    /\ UNCHANGED <<map_rect, map_triangle, queue, capacity, pc, pending, consumed, budget, consumer, tex, ui>>

\* remove_rect resolving with get() instead of remove(): the token stays
\* live and its index is not freed.
remove_rect_with_get(src, token) ==
    /\ Ready
    /\ IF IndexMap_contains(map_rect, token)
       THEN /\ frame' = [frame EXCEPT !.quads =
                            Append(@, Remove(IndexMap_get(map_rect, token)))]
            /\ log' = Append(log, Call("remove", "rect", token,
                                       IndexMap_get(map_rect, token), 0))
            /\ ret' = Ret("remove", "rect", token, src, "ok")
       ELSE /\ ret' = Ret("remove", "rect", token, src, "InvalidToken")
            /\ UNCHANGED <<frame, log>>
    /\ UNCHANGED <<map_rect, map_triangle, queue, capacity, pc, pending, consumed, budget, consumer, tex, ui>>

\* remove_rect removing its token from map_triangle.
remove_rect_other_map(src, token) ==
    /\ Ready
    /\ IF IndexMap_contains(map_triangle, token)
       THEN /\ frame' = [frame EXCEPT !.quads =
                            Append(@, Remove(IndexMap_get(map_triangle, token)))]
            /\ map_triangle' = IndexMap_remove(map_triangle, token)
            /\ log' = Append(log, Call("remove", "rect", token,
                                       IndexMap_get(map_triangle, token), 0))
            /\ ret' = Ret("remove", "rect", token, src, "ok")
       ELSE /\ ret' = Ret("remove", "rect", token, src, "InvalidToken")
            /\ UNCHANGED <<frame, map_triangle, log>>
    /\ UNCHANGED <<map_rect, queue, capacity, pc, pending, consumed, budget, consumer, tex, ui>>

\* remove_rect freeing the index without pushing the Remove message.
remove_rect_silent(src, token) ==
    /\ Ready
    /\ IF IndexMap_contains(map_rect, token)
       THEN /\ map_rect' = IndexMap_remove(map_rect, token)
            /\ log' = Append(log, Call("remove", "rect", token,
                                       IndexMap_get(map_rect, token), 0))
            /\ ret' = Ret("remove", "rect", token, src, "ok")
            /\ UNCHANGED frame
       ELSE /\ ret' = Ret("remove", "rect", token, src, "InvalidToken")
            /\ UNCHANGED <<frame, map_rect, log>>
    /\ UNCHANGED <<map_triangle, queue, capacity, pc, pending, consumed, budget, consumer, tex, ui>>

remove_rect(src, token) ==
    /\ Ready
    /\ IF IndexMap_contains(map_rect, token)
       THEN /\ frame' = [frame EXCEPT !.quads =
                            Append(@, Remove(IndexMap_get(map_rect, token)))]
            /\ map_rect' = IndexMap_remove(map_rect, token)
            /\ log' = Append(log, Call("remove", "rect", token,
                                       IndexMap_get(map_rect, token), 0))
            /\ ret' = Ret("remove", "rect", token, src, "ok")
       ELSE /\ ret' = Ret("remove", "rect", token, src, "InvalidToken")
            /\ UNCHANGED <<frame, map_rect, log>>
    /\ UNCHANGED <<map_triangle, queue, capacity, pc, pending, consumed, budget, consumer, tex, ui>>

\* -------------------------------------------------------------- triangles
\* create_triangle pushing its message onto the quads.
create_triangle_onto_quads(p) ==
    /\ Ready
    /\ frame' = [frame EXCEPT !.quads = Append(@, Create(p))]
    /\ map_triangle' = IndexMap_add(map_triangle)
    /\ log' = Append(log, Call("create", "triangle", IndexMap_add_token(map_triangle),
                               IndexMap_add_index(map_triangle), p))
    /\ ret' = Ret("create", "triangle", IndexMap_add_token(map_triangle), "triangle", "ok")
    /\ UNCHANGED <<map_rect, queue, capacity, pc, pending, consumed, budget, consumer, tex, ui>>

create_triangle(p) ==
    /\ Ready
    /\ frame' = [frame EXCEPT !.triangles = Append(@, Create(p))]
    /\ map_triangle' = IndexMap_add(map_triangle)
    /\ log' = Append(log, Call("create", "triangle", IndexMap_add_token(map_triangle),
                               IndexMap_add_index(map_triangle), p))
    /\ ret' = Ret("create", "triangle", IndexMap_add_token(map_triangle), "triangle", "ok")
    /\ UNCHANGED <<map_rect, queue, capacity, pc, pending, consumed, budget, consumer, tex, ui>>

update_triangle(src, token, p) ==
    /\ Ready
    /\ IF IndexMap_contains(map_triangle, token)
       THEN /\ frame' = [frame EXCEPT !.triangles =
                            Append(@, Update(IndexMap_get(map_triangle, token), p))]
            /\ log' = Append(log, Call("update", "triangle", token,
                                       IndexMap_get(map_triangle, token), p))
            /\ ret' = Ret("update", "triangle", token, src, "ok")
       ELSE /\ ret' = Ret("update", "triangle", token, src, "InvalidToken")
            /\ UNCHANGED <<frame, log>>
    /\ UNCHANGED <<map_rect, map_triangle, queue, capacity, pc, pending, consumed, budget, consumer, tex, ui>>

remove_triangle(src, token) ==
    /\ Ready
    /\ IF IndexMap_contains(map_triangle, token)
       THEN /\ frame' = [frame EXCEPT !.triangles =
                            Append(@, Remove(IndexMap_get(map_triangle, token)))]
            /\ map_triangle' = IndexMap_remove(map_triangle, token)
            /\ log' = Append(log, Call("remove", "triangle", token,
                                       IndexMap_get(map_triangle, token), 0))
            /\ ret' = Ret("remove", "triangle", token, src, "ok")
       ELSE /\ ret' = Ret("remove", "triangle", token, src, "InvalidToken")
            /\ UNCHANGED <<frame, map_triangle, log>>
    /\ UNCHANGED <<map_rect, queue, capacity, pc, pending, consumed, budget, consumer, tex, ui>>

\* ------------------------------------------------------------ translation
\* set_translation keeping a translation already set in this frame.
set_translation_keep_first(translation) ==
    /\ Ready
    /\ frame' = IF frame.translation = None
                THEN [frame EXCEPT !.translation = Some(translation)]
                ELSE frame
    /\ log' = Append(log, Call("set_translation", "none", 0, 0, translation))
    /\ ret' = Ret("set_translation", "none", 0, "none", "ok")
    /\ UNCHANGED <<map_rect, map_triangle, queue, capacity, pc, pending, consumed, budget, consumer, tex, ui>>

set_translation(translation) ==
    /\ Ready
    /\ frame' = [frame EXCEPT !.translation = Some(translation)]
    /\ log' = Append(log, Call("set_translation", "none", 0, 0, translation))
    /\ ret' = Ret("set_translation", "none", 0, "none", "ok")
    /\ UNCHANGED <<map_rect, map_triangle, queue, capacity, pc, pending, consumed, budget, consumer, tex, ui>>

\* ------------------------------------------------------------------- send
\* send() swaps a fresh RenderFrame into self.frame and then calls push(),
\* which returns only once the queue has room for the swapped-out frame.
\* send() moving only the quads out of the in-progress frame.
send_quads_only ==
    /\ Ready
    /\ pending' = [RenderFrame_new EXCEPT !.quads = frame.quads]
    /\ frame' = [frame EXCEPT !.quads = <<>>]
    /\ pc' = "push"
    /\ log' = Append(log, Call("send", "none", 0, 0, 0))
    /\ ret' = Ret("send", "none", 0, "none", "ok")
    /\ UNCHANGED <<map_rect, map_triangle, queue, capacity, consumed, budget, consumer, tex, ui>>

\* send() pushing a copy of the in-progress frame and keeping the original.
send_copy ==
    /\ Ready
    /\ pending' = frame
    /\ frame' = frame
    /\ pc' = "push"
    /\ log' = Append(log, Call("send", "none", 0, 0, 0))
    /\ ret' = Ret("send", "none", 0, "none", "ok")
    /\ UNCHANGED <<map_rect, map_triangle, queue, capacity, consumed, budget, consumer, tex, ui>>

\* send() returning early, without pushing, when nothing was accumulated.
send_skip_empty ==
    /\ Ready
    /\ IF frame = RenderFrame_new
       THEN UNCHANGED <<pending, pc>>
       ELSE pending' = frame /\ pc' = "push"
    /\ frame' = RenderFrame_new
    /\ log' = Append(log, Call("send", "none", 0, 0, 0))
    /\ ret' = Ret("send", "none", 0, "none", "ok")
    /\ UNCHANGED <<map_rect, map_triangle, queue, capacity, consumed, budget, consumer, tex, ui>>

\* send() starting the next frame with fresh index maps.
send_new_maps ==
    /\ Ready
    /\ pending' = frame
    /\ frame' = RenderFrame_new
    /\ map_rect' = IndexMap_new
    /\ map_triangle' = IndexMap_new
    /\ pc' = "push"
    /\ log' = Append(log, Call("send", "none", 0, 0, 0))
    /\ ret' = Ret("send", "none", 0, "none", "ok")
    /\ UNCHANGED <<queue, capacity, consumed, budget, consumer, tex, ui>>

send ==
    /\ Ready
    /\ pending' = frame
    /\ frame' = RenderFrame_new
    /\ pc' = "push"
    /\ log' = Append(log, Call("send", "none", 0, 0, 0))
    /\ ret' = Ret("send", "none", 0, "none", "ok")
    /\ UNCHANGED <<map_rect, map_triangle, queue, capacity, consumed, budget, consumer, tex, ui>>

\* push() putting the frame at the head of the queue.
push_at_head ==
    /\ pc = "push"
    /\ Len(queue) < capacity
    /\ queue' = <<pending>> \o queue
    /\ pending' = RenderFrame_new
    /\ pc' = "idle"
    /\ UNCHANGED <<frame, map_rect, map_triangle, capacity, consumed, log, ret, budget, consumer, tex, ui>>

\* push() that does not wait: a full queue drops its oldest frame.
push_drop_oldest ==
    /\ pc = "push"
    /\ queue' = IF Len(queue) < capacity
                THEN Append(queue, pending)
                ELSE Append(Tail(queue), pending)
    /\ pending' = RenderFrame_new
    /\ pc' = "idle"
    /\ UNCHANGED <<frame, map_rect, map_triangle, capacity, consumed, log, ret, budget, consumer, tex, ui>>

\* push() waiting until the queue has room for two frames.
push_off_by_one ==
    /\ pc = "push"
    /\ Len(queue) + 1 < capacity
    /\ queue' = Append(queue, pending)
    /\ pending' = RenderFrame_new
    /\ pc' = "idle"
    /\ UNCHANGED <<frame, map_rect, map_triangle, capacity, consumed, log, ret, budget, consumer, tex, ui>>

push ==
    /\ pc = "push"
    /\ Len(queue) < capacity
    /\ queue' = Append(queue, pending)
    /\ pending' = RenderFrame_new
    /\ pc' = "idle"
    /\ UNCHANGED <<frame, map_rect, map_triangle, capacity, consumed, log, ret, budget, consumer, tex, ui>>

\* --------------------------------------------------------------- consumer
pop ==
    /\ consumer = "running"
    /\ queue # <<>>
    /\ consumed' = Append(consumed, Head(queue))
    /\ queue' = Tail(queue)
    /\ UNCHANGED <<frame, map_rect, map_triangle, capacity, pc, pending, log, ret, budget, consumer, tex, ui>>

Next ==
    \/ \E p \in Params : create_rect(p)
    \/ \E h \in Held, p \in Params : update_rect(h[1], h[2], p)
    \/ \E h \in Held : remove_rect(h[1], h[2])
    \/ \E p \in Params : create_triangle(p)
    \/ \E h \in Held, p \in Params : update_triangle(h[1], h[2], p)
    \/ \E h \in Held : remove_triangle(h[1], h[2])
    \/ \E t \in Translations : set_translation(t)
    \/ send
    \/ push
    \/ pop

Spec == Init /\ [][Next]_vars

\* The consumer keeps popping while frames are queued, and the producer
\* thread keeps running its push() once the queue has room.
SpecLive == Init /\ [][Next]_vars /\ WF_vars(pop) /\ WF_vars(push)

\* The render thread shuts down: it drops its end of the queue and pops no
\* more. Nothing in send() or in the queue's push() looks at the other end.
consumer_shutdown ==
    /\ consumer = "running"
    /\ consumer' = "closed"
    /\ UNCHANGED <<frame, map_rect, map_triangle, queue, capacity, pc, pending, consumed,
                   log, ret, budget, tex, ui>>

NextClosed ==
    \/ Next
    \/ consumer_shutdown

SpecClosed == Init /\ [][NextClosed]_vars

\* The quad calls alone, for the longer runs a reuse scenario needs.
InitQuads ==
    /\ frame = RenderFrame_new
    /\ map_rect = IndexMap_new
    /\ map_triangle = IndexMap_new
    /\ queue = <<>>
    /\ capacity \in 1..MaxCapacity
    /\ pc = "idle"
    /\ pending = RenderFrame_new
    /\ consumed = <<>>
    /\ log = <<>>
    /\ ret = Ret("new", "none", 0, "none", "ok")
    /\ budget = MaxQuadOps
    /\ consumer = "running"
    /\ tex = NoTextureCall
    /\ ui = NoUIEngine

NextQuads ==
    \/ \E p \in Params : create_rect(p)
    \/ \E h \in Held : remove_rect(h[1], h[2])
    \/ send
    \/ push
    \/ pop

SpecQuads == InitQuads /\ [][NextQuads]_vars

\* ---------------------------------------------------------------------------
\* Texture::sub_texture (types.rs). A Texture is the UV vector
\* <<xmin, xmax, ymin, ymax>> of u16 coordinates; pixel arguments are scaled
\* by PIXEL_SIZE. u16 arithmetic panics on overflow in a debug build and
\* wraps modulo 2^16 in a release build.
\* ---------------------------------------------------------------------------

U16 == 65536

\* crate::texture::PIXEL_SIZE is imported by types.rs; the run fixes one of
\* these values for it.
PixelSizes == {1, 8, 32}

PIXEL_SIZE == tex.pixel_size

\* Pixel arguments tried for minx, miny, width and height.
Pixels == {0, 1, 2, 2047, 2048, 65535}

Builds == {"debug", "release"}

Min(a, b) == IF a < b THEN a ELSE b

Max(a, b) == IF a > b THEN a ELSE b

wrapping_add(a, b) == (a + b) % U16

wrapping_mul(a, b) == (a * b) % U16

Texture_default(P) == <<0, P, 0, P>>

mirror_y(t) == <<t[2], t[1], t[3], t[4]>>

mirror_x(t) == <<t[1], t[2], t[4], t[3]>>

\* Source textures: the default texture, its mirrors, and a region of an
\* atlas away from the origin.
SourceTextures(P) ==
    {Texture_default(P), mirror_y(Texture_default(P)), mirror_x(Texture_default(P)),
     <<P, 3 * P, 2 * P, 4 * P>>}

Bounds(t) == <<Min(t[1], t[2]), Max(t[1], t[2]), Min(t[3], t[4]), Max(t[3], t[4])>>

\* base + px * PIXEL_SIZE as the release build computes it.
Scaled(base, px, P) == wrapping_add(base, wrapping_mul(px, P))

ScaledOverflows(base, px, P) == px * P >= U16 \/ base + wrapping_mul(px, P) >= U16

Subset(t, minx, miny, width, height, P) ==
    <<Scaled(Bounds(t)[1], minx, P),
      Scaled(Bounds(t)[1], wrapping_add(minx, width), P),
      Scaled(Bounds(t)[3], miny, P),
      Scaled(Bounds(t)[3], wrapping_add(miny, height), P)>>

SubsetOverflows(t, minx, miny, width, height, P) ==
    \/ ScaledOverflows(Bounds(t)[1], minx, P)
    \/ minx + width >= U16
    \/ ScaledOverflows(Bounds(t)[1], wrapping_add(minx, width), P)
    \/ ScaledOverflows(Bounds(t)[3], miny, P)
    \/ miny + height >= U16
    \/ ScaledOverflows(Bounds(t)[3], wrapping_add(miny, height), P)

Ok(t) == [kind |-> "Ok", value |-> t]

Err(msg) == [kind |-> "Err", value |-> msg]

Panic == [kind |-> "Panic", value |-> "attempt to add or multiply with overflow"]

sub_texture_result(build, t, minx, miny, width, height, P) ==
    LET bounds == Bounds(t)
        subset == Subset(t, minx, miny, width, height, P)
    IN  IF width = 0 \/ height = 0
          THEN Err("Size must be greater than 0")
        ELSE IF build = "debug" /\ SubsetOverflows(t, minx, miny, width, height, P)
          THEN Panic
        ELSE IF \/ subset[1] > bounds[2]
                \/ subset[2] > bounds[2]
                \/ subset[3] > bounds[4]
                \/ subset[4] > bounds[4]
          THEN Err("Requested subtexture is outside the bounds of the source texture.")
        ELSE Ok(subset)

InitTexture ==
    /\ frame = RenderFrame_new
    /\ map_rect = IndexMap_new
    /\ map_triangle = IndexMap_new
    /\ queue = <<>>
    /\ capacity = 1
    /\ pc = "idle"
    /\ pending = RenderFrame_new
    /\ consumed = <<>>
    /\ log = <<>>
    /\ ret = Ret("new", "none", 0, "none", "ok")
    /\ budget = 0
    /\ consumer = "running"
    /\ ui = NoUIEngine
    /\ \E build \in Builds, P \in PixelSizes :
       \E t \in SourceTextures(P), minx, miny, width, height \in Pixels :
          tex = [phase |-> "input", build |-> build, pixel_size |-> P, self |-> t,
                 minx |-> minx, miny |-> miny, width |-> width, height |-> height,
                 result |-> None]

sub_texture ==
    /\ tex.phase = "input"
    /\ tex' = [tex EXCEPT !.phase = "done",
                          !.result = Some(sub_texture_result(tex.build, tex.self, tex.minx,
                                                             tex.miny, tex.width, tex.height,
                                                             PIXEL_SIZE))]
    /\ UNCHANGED <<frame, map_rect, map_triangle, queue, capacity, pc, pending, consumed,
                   log, ret, budget, consumer, ui>>

NextTexture == sub_texture

SpecTexture == InitTexture /\ [][NextTexture]_vars

\* ----------------------------------------------- the history, read back
\* The frames that have left the producer, oldest first.
Sent == consumed \o queue \o (IF pc = "push" THEN <<pending>> ELSE <<>>)
AllFrames == Sent \o <<frame>>

RECURSIVE SplitCalls(_, _, _)
SplitCalls(calls, cur, done) ==
    IF calls = <<>> THEN [closed |-> done, open |-> cur]
    ELSE IF Head(calls).op = "send"
         THEN SplitCalls(Tail(calls), <<>>, Append(done, cur))
         ELSE SplitCalls(Tail(calls), Append(cur, Head(calls)), done)

\* The calls between consecutive send() calls, and those since the last one.
Segments == SplitCalls(log, <<>>, <<>>)
AllSegments == Segments.closed \o <<Segments.open>>
NumSends == Len(Segments.closed)

KindCalls(kind, seg) == SelectSeq(seg, LAMBDA c : c.kind = kind)

CommandOf(c) ==
    CASE c.op = "create" -> Create(c.p)
      [] c.op = "update" -> Update(c.idx, c.p)
      [] c.op = "remove" -> Remove(c.idx)

Commands(kind, seg) ==
    [i \in 1..Len(KindCalls(kind, seg)) |-> CommandOf(KindCalls(kind, seg)[i])]

LastTranslation(seg) ==
    LET s == SelectSeq(seg, LAMBDA c : c.op = "set_translation")
    IN  IF s = <<>> THEN None ELSE Some(s[Len(s)].p)

Accumulated(seg) ==
    [quads |-> Commands("rect", seg), triangles |-> Commands("triangle", seg),
     translation |-> LastTranslation(seg)]

NonEmpty(f) == f.quads # <<>> \/ f.triangles # <<>>

MapOf(kind) == IF kind = "rect" THEN map_rect ELSE map_triangle
Kinds == {"rect", "triangle"}

RemovedTokens(kind) ==
    {log[i].tok : i \in {j \in 1..Len(log) : log[j].op = "remove" /\ log[j].kind = kind}}

\* ------------------------------------------------------------------ C1
\* C1: frames reach the consumer in send order, none skipped, none twice:
\* the k-th frame popped is the k-th frame sent, and every frame sent is
\* popped, in the queue, or held by the blocked push, for every capacity.
C1_FifoDelivery ==
    /\ Len(consumed) + Len(queue) + (IF pc = "push" THEN 1 ELSE 0) = NumSends
    /\ \A k \in 1..Len(consumed) :
          k <= NumSends /\ consumed[k] = Accumulated(Segments.closed[k])
    /\ (queue = <<>> /\ pc = "idle") => Len(consumed) = NumSends

C1_Witness ==
    /\ capacity = 1
    /\ Len(consumed) = 2
    /\ NonEmpty(consumed[1]) /\ NonEmpty(consumed[2])
    /\ consumed[1] # consumed[2]

\* ------------------------------------------------------------------ C2
\* C2: every frame in the channel or at the consumer is a whole frame: the
\* commands and the translation accumulated between two consecutive sends,
\* and nothing called after the most recent send.
C2_NoPartialFrame ==
    /\ Len(Sent) = NumSends
    /\ \A k \in 1..Len(Sent) : Sent[k] = Accumulated(Segments.closed[k])

C2_Witness ==
    /\ Len(consumed) = 1
    /\ consumed[1].quads # <<>> /\ consumed[1].triangles # <<>>
    /\ Segments.open # <<>>

\* ------------------------------------------------------------------ C3
\* C3: each command appended is in exactly one frame, the one the next
\* send() enqueues (the in-progress frame until then), at its place in
\* program order; and once send() has swapped, the in-progress frame is empty.
C3_ExactlyOnce ==
    /\ Len(AllFrames) = Len(AllSegments)
    /\ \A k \in 1..Len(AllFrames) :
          /\ AllFrames[k].quads = Commands("rect", AllSegments[k])
          /\ AllFrames[k].triangles = Commands("triangle", AllSegments[k])
    /\ ret.op = "send" => frame = RenderFrame_new

C3_Witness ==
    /\ ret.op = "send" /\ pc = "idle"
    /\ NumSends = 2
    /\ NonEmpty(Sent[1]) /\ NonEmpty(Sent[2])

\* ------------------------------------------------------------------ C4
\* C4: when the quad calls between two sends are create_rect -> A,
\* update_rect(A), remove_rect(A), the frame the consumer pops holds exactly
\* Create, Update{id}, Remove{id} in that order, id being A's index.
CreateUpdateRemove(r) ==
    /\ Len(r) = 3
    /\ r[1].op = "create"
    /\ r[2].op = "update" /\ r[2].tok = r[1].tok
    /\ r[3].op = "remove" /\ r[3].tok = r[1].tok

C4_ProgramOrder ==
    \A k \in 1..Len(consumed) :
        LET r == KindCalls("rect", Segments.closed[k])
        IN  CreateUpdateRemove(r) =>
                consumed[k].quads =
                    <<Create(r[1].p), Update(r[1].idx, r[2].p), Remove(r[1].idx)>>

C4_Witness ==
    \E k \in 1..Len(consumed) :
        CreateUpdateRemove(KindCalls("rect", Segments.closed[k]))

\* ------------------------------------------------------------------ C5
\* C5: in the stream of one kind (frames concatenated in send order, the
\* in-progress frame last) every Update{id} and Remove{id} comes after a
\* Create whose token the producer resolved to id.
RECURSIVE Concat(_)
Concat(ss) == IF ss = <<>> THEN <<>> ELSE Head(ss) \o Concat(Tail(ss))

Stream(kind) ==
    Concat([k \in 1..Len(AllFrames) |->
               IF kind = "rect" THEN AllFrames[k].quads ELSE AllFrames[k].triangles])

Creates(kind) == SelectSeq(KindCalls(kind, log), LAMBDA c : c.op = "create")

NumCreatesUpTo(st, i) == Cardinality({j \in 1..i : st[j].type = "Create"})

C5_CreateFirst ==
    \A kind \in Kinds :
        LET st == Stream(kind)
        IN  \A j \in 1..Len(st) :
                st[j].type \in {"Update", "Remove"} =>
                    \E i \in 1..(j - 1) :
                        /\ st[i].type = "Create"
                        /\ NumCreatesUpTo(st, i) <= Len(Creates(kind))
                        /\ Creates(kind)[NumCreatesUpTo(st, i)].idx = st[j].id

C5_Witness ==
    /\ Len(consumed) = 2
    /\ consumed[1].quads # <<>>
    /\ \E j \in 1..Len(consumed[2].quads) : consumed[2].quads[j].type = "Remove"

\* ------------------------------------------------------------------ C6
\* C6: three quads get indices 0, 1, 2; removing the second frees index 1,
\* which the fourth quad receives under a new token; the frame sent next is
\* Create, Create, Create, Remove{1}, Create, and so it reaches the consumer.
ReuseScenario ==
    /\ Len(log) >= 5
    /\ \A i \in {1, 2, 3, 5} : log[i].op = "create" /\ log[i].kind = "rect"
    /\ log[4].op = "remove" /\ log[4].kind = "rect" /\ log[4].tok = log[2].tok

ReuseScenarioFrame ==
    <<Create(log[1].p), Create(log[2].p), Create(log[3].p), Remove(1), Create(log[5].p)>>

C6_ReuseScenario ==
    ReuseScenario =>
        /\ <<log[1].idx, log[2].idx, log[3].idx>> = <<0, 1, 2>>
        /\ log[4].idx = 1
        /\ log[5].idx = 1
        /\ log[5].tok \notin {log[1].tok, log[2].tok, log[3].tok}
        /\ Len(log) = 5 => IndexMap_get(map_rect, log[5].tok) = 1
        /\ SubSeq(AllFrames[1].quads, 1, 5) = ReuseScenarioFrame
        /\ (Len(log) >= 6 /\ log[6].op = "send") =>
               /\ Sent[1].quads = ReuseScenarioFrame
               /\ consumed # <<>> => consumed[1].quads = ReuseScenarioFrame

C6_Witness ==
    /\ ReuseScenario
    /\ Len(log) = 6 /\ log[6].op = "send"
    /\ Len(consumed) = 1

\* ------------------------------------------------------------------ C7
\* C7: in each IndexMap the live tokens resolve to pairwise distinct
\* indices, at every point of every run.
C7_NoAliasing ==
    \A kind \in Kinds :
        \A t1, t2 \in IndexMap_live(MapOf(kind)) :
            t1 # t2 => IndexMap_get(MapOf(kind), t1) # IndexMap_get(MapOf(kind), t2)

C7_Witness ==
    /\ Cardinality(IndexMap_live(map_rect)) >= 2
    /\ RemovedTokens("rect") # {}
    /\ map_rect.free = <<>>

\* ------------------------------------------------------------------ C8
\* C8: a token removed once never resolves again: get and remove on it fail
\* with InvalidToken from then on, whatever was added or removed since, also
\* when a newer token holds its former index.
NumRemoves(kind, token) ==
    Cardinality({j \in 1..Len(log) :
                    log[j].op = "remove" /\ log[j].kind = kind /\ log[j].tok = token})

C8_RemovedStaysInvalid ==
    /\ \A kind \in Kinds : \A t \in RemovedTokens(kind) :
          /\ ~IndexMap_contains(MapOf(kind), t)
          /\ NumRemoves(kind, t) = 1
    /\ (ret.op = "update" /\ ret.tok \in RemovedTokens(ret.kind)) =>
          ret.res = "InvalidToken"
    /\ (ret.op = "remove" /\ ret.res = "InvalidToken") =>
          ~IndexMap_contains(MapOf(ret.kind), ret.tok)

C8_Witness ==
    /\ ret.op = "update" /\ ret.kind = "rect" /\ ret.res = "InvalidToken"
    /\ ret.tok \in RemovedTokens("rect")
    /\ \E t \in IndexMap_live(map_rect) :
          \E j \in 1..Len(log) :
              /\ log[j].op = "remove" /\ log[j].kind = "rect" /\ log[j].tok = ret.tok
              /\ IndexMap_get(map_rect, t) = log[j].idx

\* ------------------------------------------------------------------ C9
\* C9: update_K and remove_K fail with InvalidToken exactly when the token
\* is unknown to the kind's IndexMap or was removed; the caller sees the
\* failure, and the failing call appends nothing and leaves both maps alone.
CallStep == log' # log \/ ret' # ret

C9_InvalidTokenPropagates ==
    [][(CallStep /\ ret'.op \in {"update", "remove"}) =>
          /\ ~IndexMap_contains(MapOf(ret'.kind), ret'.tok) => ret'.res = "InvalidToken"
          /\ ret'.res = "InvalidToken" =>
                /\ ~IndexMap_contains(MapOf(ret'.kind), ret'.tok)
                /\ UNCHANGED <<frame, map_rect, map_triangle, queue, pending, log>>]_vars

C9_Witness ==
    /\ ret.op = "remove" /\ ret.res = "InvalidToken"
    /\ ret.tok \in RemovedTokens(ret.kind)
    /\ NonEmpty(frame)

\* ----------------------------------------------------------------- C10
\* C10: a token issued by create_triangle and passed to update_rect or
\* remove_rect (or a quad token passed to the triangle calls) fails with
\* InvalidToken.
C10_KindsNotInterchangeable ==
    (ret.op \in {"update", "remove"} /\ ret.src \in Kinds /\ ret.src # ret.kind) =>
        ret.res = "InvalidToken"

\* ----------------------------------------------------------------- C11
\* C11: a frame carries at most one translation: the argument of the last
\* set_translation call since the previous send(), and none when there was
\* no such call. The same holds of the in-progress frame.
C11_LastTranslationWins ==
    /\ Len(AllFrames) = Len(AllSegments)
    /\ \A k \in 1..Len(AllFrames) :
          /\ Len(AllFrames[k].translation) <= 1
          /\ AllFrames[k].translation = LastTranslation(AllSegments[k])

C11_Witness ==
    \E k \in 1..Len(consumed) :
        LET s == SelectSeq(Segments.closed[k], LAMBDA c : c.op = "set_translation")
        IN  /\ Len(s) = 2 /\ s[1].p # s[2].p
            /\ consumed[k].translation = Some(s[2].p)

\* ----------------------------------------------------------------- C12
\* C12: a send() with no call since the previous send() still enqueues one
\* frame, and that frame has no quad message, no triangle message and no
\* translation.
C12_EmptyFrameSent ==
    /\ Len(Sent) = NumSends
    /\ \A k \in 1..Len(Sent) :
          Segments.closed[k] = <<>> => Sent[k] = RenderFrame_new

C12_Witness ==
    /\ Len(consumed) = 2
    /\ NonEmpty(consumed[1])
    /\ Segments.closed[2] = <<>>
    /\ consumed[2] = RenderFrame_new

\* ----------------------------------------------------------------- C13
\* C13: the queue never holds more than capacity (>= 1) frames; send()
\* returns only by appending its frame to a queue that has room, and the
\* queue changes in no other way than that append and the consumer's pop.
C13_BlockingBackpressure ==
    /\ [](capacity >= 1 /\ Len(queue) <= capacity)
    /\ [][/\ (pc = "push" /\ pc' = "idle") =>
                Len(queue) < capacity /\ queue' = Append(queue, pending)
          /\ \/ queue' = queue
             \/ pc = "push" /\ queue' = Append(queue, pending)
             \/ queue # <<>> /\ queue' = Tail(queue)
                    /\ consumed' = Append(consumed, Head(queue))
          /\ (pc = "push" /\ Len(queue) = capacity /\ queue' = queue) => pc' = "push"]_vars

C13_Witness ==
    /\ pc = "push"
    /\ capacity = 2
    /\ Len(queue) = capacity

\* ----------------------------------------------------------------- C15
\* C15: a live token resolves to the index its create call was given, at
\* every point until it is removed: every update of it carried that index,
\* and no call on the same IndexMap moves it.
CreateOf(kind, token) ==
    CHOOSE c \in {log[j] : j \in 1..Len(log)} :
        c.op = "create" /\ c.kind = kind /\ c.tok = token

C15_IndexFixed ==
    /\ [](\A kind \in Kinds : \A t \in IndexMap_live(MapOf(kind)) :
             IndexMap_get(MapOf(kind), t) = CreateOf(kind, t).idx)
    /\ [](\A j \in 1..Len(log) :
             log[j].op \in {"update", "remove"} =>
                 log[j].idx = CreateOf(log[j].kind, log[j].tok).idx)
    /\ [][\A kind \in Kinds :
             \A t \in IndexMap_live(MapOf(kind)) :
                 t \in IndexMap_live(MapOf(kind))' =>
                     IndexMap_get(MapOf(kind), t)' = IndexMap_get(MapOf(kind), t)]_vars

C15_Witness ==
    /\ Len(log) = 4
    /\ log[1].op = "create" /\ log[1].kind = "rect"
    /\ log[2].op = "create" /\ log[2].kind = "rect"
    /\ log[3].op = "remove" /\ log[3].kind = "rect" /\ log[3].tok = log[1].tok
    /\ log[4].op = "update" /\ log[4].kind = "rect" /\ log[4].tok = log[2].tok

\* ----------------------------------------------------------------- C16
\* C16: a create call is given a freed index when one is free and otherwise
\* the next integer never given out, so the indices given out are 0..n-1;
\* a create right after a remove on the same IndexMap takes over the index
\* just freed under a token different from the removed one.
AllocCalls(kind) ==
    SelectSeq(KindCalls(kind, log), LAMBDA c : c.op \in {"create", "remove"})

GivenOutBefore(a, j) == {a[i].idx : i \in {n \in 1..(j - 1) : a[n].op = "create"}}

LiveBefore(a, j) ==
    {a[i].idx : i \in {n \in 1..(j - 1) :
        /\ a[n].op = "create"
        /\ ~\E r \in (n + 1)..(j - 1) : a[r].op = "remove" /\ a[r].tok = a[n].tok}}

C16_ReuseFirst ==
    \A kind \in Kinds :
        LET a == AllocCalls(kind)
        IN  \A j \in 1..Len(a) :
                /\ GivenOutBefore(a, j) = 0..(Cardinality(GivenOutBefore(a, j)) - 1)
                /\ a[j].op = "create" =>
                      /\ IF GivenOutBefore(a, j) \ LiveBefore(a, j) # {}
                         THEN a[j].idx \in GivenOutBefore(a, j) \ LiveBefore(a, j)
                         ELSE a[j].idx = Cardinality(GivenOutBefore(a, j))
                      /\ \A i \in 1..(j - 1) : a[i].tok # a[j].tok
                      /\ (j > 1 /\ a[j - 1].op = "remove") =>
                            a[j].idx = a[j - 1].idx /\ a[j].tok # a[j - 1].tok

C16_Witness ==
    LET a == AllocCalls("rect")
    IN  /\ Len(a) = 4
        /\ a[1].op = "create" /\ a[2].op = "create"
        /\ a[3].op = "remove" /\ a[3].tok = a[1].tok
        /\ a[4].op = "create" /\ a[4].idx = a[1].idx

\* ----------------------------------------------------------------- C17
\* C17: update_K, which only calls get(), leaves both IndexMaps as they
\* were, whether the token resolves or not: table, free list and token
\* counter, hence the live tokens and the index of the next create.
C17_GetHasNoEffect ==
    [][(CallStep /\ ret'.op = "update") =>
          /\ UNCHANGED <<map_rect, map_triangle>>
          /\ \A kind \in Kinds :
                /\ IndexMap_live(MapOf(kind))' = IndexMap_live(MapOf(kind))
                /\ IndexMap_add_index(MapOf(kind))' = IndexMap_add_index(MapOf(kind))
                /\ IndexMap_add_token(MapOf(kind))' = IndexMap_add_token(MapOf(kind))]_vars

C17_Witness ==
    /\ Len(log) >= 4
    /\ log[1].op = "create" /\ log[1].kind = "rect"
    /\ log[2].op = "update" /\ log[2].kind = "rect"
    /\ log[3].op = "remove" /\ log[3].kind = "rect"
    /\ log[4].op = "create" /\ log[4].kind = "rect" /\ log[4].idx = log[1].idx

\* ----------------------------------------------------------------- C20
\* C20: a successful create_K / update_K / remove_K appends one message to
\* kind K's list and leaves the other list, the other IndexMap, the
\* translation and the channel alone; set_translation changes the
\* translation only.
ListOf(f, kind) == IF kind = "rect" THEN f.quads ELSE f.triangles
OtherKind(kind) == IF kind = "rect" THEN "triangle" ELSE "rect"

C20_OneKindTouched ==
    [][/\ (CallStep /\ ret'.op \in {"create", "update", "remove"} /\ ret'.res = "ok") =>
             /\ Len(ListOf(frame', ret'.kind)) = Len(ListOf(frame, ret'.kind)) + 1
             /\ SubSeq(ListOf(frame', ret'.kind), 1, Len(ListOf(frame, ret'.kind)))
                    = ListOf(frame, ret'.kind)
             /\ ListOf(frame', OtherKind(ret'.kind)) = ListOf(frame, OtherKind(ret'.kind))
             /\ ret'.kind = "rect" => map_triangle' = map_triangle
             /\ ret'.kind = "triangle" => map_rect' = map_rect
             /\ frame'.translation = frame.translation
             /\ UNCHANGED <<queue, pending, consumed, pc>>
       /\ (CallStep /\ ret'.op = "set_translation") =>
             /\ frame'.quads = frame.quads /\ frame'.triangles = frame.triangles
             /\ UNCHANGED <<map_rect, map_triangle, queue, pending, consumed, pc>>]_vars

C20_Witness ==
    /\ ret.op = "create" /\ ret.kind = "triangle"
    /\ frame.quads # <<>> /\ frame.translation # None
    /\ queue # <<>>
    /\ Len(frame.triangles) = 1

\* ----------------------------------------------------------------- C19
\* C19: while the consumer keeps popping, a send() blocked on a full queue
\* returns, so the producer is never stuck, and every frame sent is popped.
C19_SendReturnsFramePopped ==
    /\ (pc = "push") ~> (pc = "idle")
    /\ \A k \in 1..MaxOps : (NumSends >= k) ~> (Len(consumed) >= k)

C19_Witness ==
    /\ pc = "push"
    /\ capacity = 1
    /\ Len(queue) = capacity
    /\ consumed # <<>>

\* ----------------------------------------------------------------- C14
\* C14: a send() called once the consumer has shut down reports
\* ChannelClosed to its caller instead of going on to push, and no send()
\* stays blocked on a full queue that nobody will ever pop.
C14_ChannelClosedSurfaced ==
    /\ [][(consumer = "closed" /\ CallStep /\ ret'.op = "send") =>
             ret'.res = "ChannelClosed" /\ pc' = "idle"]_vars
    /\ [](~(consumer = "closed" /\ pc = "push" /\ Len(queue) = capacity))

\* The requested rectangle in exact arithmetic reaches past the source's
\* right or bottom edge.
RequestedOutside ==
    \/ Bounds(tex.self)[1] + (tex.minx + tex.width) * PIXEL_SIZE > Bounds(tex.self)[2]
    \/ Bounds(tex.self)[3] + (tex.miny + tex.height) * PIXEL_SIZE > Bounds(tex.self)[4]

Within(t, bounds) ==
    /\ bounds[1] <= t[1] /\ t[1] <= t[2] /\ t[2] <= bounds[2]
    /\ bounds[3] <= t[3] /\ t[3] <= t[4] /\ t[4] <= bounds[4]

\* C18: sub_texture returns an error when width or height is 0 and when the
\* requested rectangle extends outside the source texture, for all u16
\* arguments; whenever it returns Ok the result lies within the source's bounds.
\* An overflow panic of the debug build is counted here as a refusal, so that
\* only a call that returns Ok for a rectangle outside the source fails this.
C18_SubTextureChecked ==
    tex.phase = "done" =>
        /\ (tex.width = 0 \/ tex.height = 0) => tex.result[1].kind = "Err"
        /\ RequestedOutside => tex.result[1].kind \in {"Err", "Panic"}
        /\ tex.result[1].kind = "Ok" => Within(tex.result[1].value, Bounds(tex.self))

\* ------------------------------------------------------------------ C21
\* A consumer that keeps its own slots: it applies the commands of one kind
\* in order, takes the index of a Create from the top of its stack of freed
\* indices, else the next integer never given out, and frees the index a
\* Remove names. ConsumerReplay returns the indices it gave to the Creates.
RECURSIVE ConsumerReplay(_, _, _, _)
ConsumerReplay(st, free, next, given) ==
    IF st = <<>> THEN given
    ELSE CASE Head(st).type = "Create" ->
                IF free # <<>>
                THEN ConsumerReplay(Tail(st), SubSeq(free, 1, Len(free) - 1), next,
                                    Append(given, free[Len(free)]))
                ELSE ConsumerReplay(Tail(st), free, next + 1, Append(given, next))
           [] Head(st).type = "Update" -> ConsumerReplay(Tail(st), free, next, given)
           [] Head(st).type = "Remove" ->
                ConsumerReplay(Tail(st), Append(free, Head(st).id), next, given)

ConsumerIndices(kind) == ConsumerReplay(Stream(kind), <<>>, 0, <<>>)

ProducerIndices(kind) == [i \in 1..Len(Creates(kind)) |-> Creates(kind)[i].idx]

\* C21: Create commands carry no index; a consumer applying the commands of
\* a kind in send order with the same allocation rule gives each Create the
\* index the producer's IndexMap gave the token of that create call.
C21_ConsumerDerivesIndex ==
    \A kind \in Kinds :
        /\ \A j \in 1..Len(Stream(kind)) :
              Stream(kind)[j].type = "Create" => DOMAIN Stream(kind)[j] = {"type", "p"}
        /\ ConsumerIndices(kind) = ProducerIndices(kind)

\* A frame with a Create that took over a freed index has been delivered.
C21_Witness ==
    /\ Len(consumed) = 1
    /\ Len(log) = 4
    /\ log[1].op = "create" /\ log[2].op = "remove" /\ log[3].op = "create"
    /\ log[1].kind = log[2].kind /\ log[2].kind = log[3].kind
    /\ log[3].idx = log[1].idx /\ log[3].tok # log[1].tok
    /\ log[4].op = "send"

\* ------------------------------------------------------------------ C22
\* The create calls whose token no later call has removed.
Unremoved(kind) ==
    {j \in 1..Len(log) :
        /\ log[j].op = "create" /\ log[j].kind = kind
        /\ ~\E r \in (j + 1)..Len(log) :
              log[r].op = "remove" /\ log[r].kind = kind /\ log[r].tok = log[j].tok}

SendsSince(j) == Cardinality({s \in (j + 1)..Len(log) : log[s].op = "send"})

\* C22: send() changes neither index map, at its swap or at its push; a
\* token created and not removed is live and resolves to the index of its
\* create call however many sends lie in between, and an update or remove
\* of it in a later frame is accepted with that index.
C22_SendKeepsTrackers ==
    /\ [][(pc' # pc \/ (CallStep /\ ret'.op = "send")) =>
             (map_rect' = map_rect /\ map_triangle' = map_triangle)]_vars
    /\ [](\A kind \in Kinds : \A j \in Unremoved(kind) :
             /\ IndexMap_contains(MapOf(kind), log[j].tok)
             /\ IndexMap_get(MapOf(kind), log[j].tok) = log[j].idx)
    /\ [][(CallStep /\ ret'.op \in {"update", "remove"}
              /\ \E j \in Unremoved(ret'.kind) :
                    log[j].tok = ret'.tok /\ SendsSince(j) > 0) =>
             /\ ret'.res = "ok"
             /\ log'[Len(log')].idx = CreateOf(ret'.kind, ret'.tok).idx]_vars

\* game_loop's pattern: a triangle created in one frame is updated in the
\* next with the same token, and that frame is sent too.
C22_Witness ==
    /\ Len(log) = 4
    /\ log[1].op = "create" /\ log[1].kind = "triangle"
    /\ log[2].op = "send"
    /\ log[3].op = "update" /\ log[3].kind = "triangle" /\ log[3].tok = log[1].tok
    /\ log[3].idx = log[1].idx
    /\ log[4].op = "send"
    /\ pc = "idle"

\* ---------------------------------------------------------------------------
\* UIEngine of the tetris example (examples/tetris_game/ui_engine.rs).
\* ui.ui_elements maps each UIElementToken to its element, of which the
\* engine reads the bounding box only (here the set of positions the box
\* contains); ui.is_clicked_objects and ui.ui_element_count are the fields of
\* the same names; ui.log is the history of calls with what each returned or
\* recorded. ui_element_count is a u32: the runs stay below MaxElements
\* registrations, far from its wrap.
\* ---------------------------------------------------------------------------

MaxElements == 2        \* elements registered in one run of SpecUI
MaxUICalls == 4         \* UIEngine calls in one run of SpecUI

Positions == {1, 2}
BoundingBoxes == SUBSET Positions

UIEngine_new ==
    [phase |-> "live", ui_elements |-> <<>>, is_clicked_objects |-> <<>>,
     ui_element_count |-> 0, log |-> <<>>]

UICall(op, out) == [op |-> op, out |-> out]

\* The orders in which a HashMap iteration can visit the keys in S.
Orders(S) ==
    {o \in [1..Cardinality(S) -> S] : \A i, j \in 1..Cardinality(S) : o[i] = o[j] => i = j}

\* The keys whose element answered click_up with true, in list order.
RECURSIVE Responded(_, _)
Responded(objs, resp) ==
    IF objs = <<>> THEN <<>>
    ELSE (IF resp[1] THEN <<Head(objs)>> ELSE <<>>)
            \o Responded(Tail(objs), [i \in 1..(Len(objs) - 1) |-> resp[i + 1]])

UIReady == ui.phase = "live" /\ Len(ui.log) < MaxUICalls

UIUnchanged ==
    UNCHANGED <<frame, map_rect, map_triangle, queue, capacity, pc, pending, consumed,
                log, ret, budget, consumer, tex>>

InitUI ==
    /\ frame = RenderFrame_new
    /\ map_rect = IndexMap_new
    /\ map_triangle = IndexMap_new
    /\ queue = <<>>
    /\ capacity = 1
    /\ pc = "idle"
    /\ pending = RenderFrame_new
    /\ consumed = <<>>
    /\ log = <<>>
    /\ ret = Ret("new", "none", 0, "none", "ok")
    /\ budget = 0
    /\ consumer = "running"
    /\ tex = NoTextureCall
    /\ ui = UIEngine_new

add_new_ui_element(ui_element) ==
    /\ UIReady
    /\ ui.ui_element_count < MaxElements
    /\ ui' = [ui EXCEPT
                !.ui_element_count = @ + 1,
                !.ui_elements =
                    [k \in DOMAIN ui.ui_elements \cup {ui.ui_element_count + 1} |->
                        IF k = ui.ui_element_count + 1 THEN ui_element
                        ELSE ui.ui_elements[k]],
                !.log = Append(@, UICall("add_new_ui_element", <<ui.ui_element_count + 1>>))]
    /\ UIUnchanged

click_down_event(pos) ==
    /\ UIReady
    /\ \E order \in Orders({k \in DOMAIN ui.ui_elements : pos \in ui.ui_elements[k]}) :
          ui' = [ui EXCEPT !.is_clicked_objects = @ \o order,
                           !.log = Append(@, UICall("click_down_event", order))]
    /\ UIUnchanged

\* click_up_event returning without emptying is_clicked_objects.
click_up_event_keeping(pos) ==
    /\ UIReady
    /\ IF \A i \in 1..Len(ui.is_clicked_objects) :
              ui.is_clicked_objects[i] \in DOMAIN ui.ui_elements
       THEN \E resp \in [1..Len(ui.is_clicked_objects) -> BOOLEAN] :
               ui' = [ui EXCEPT
                        !.log = Append(@, UICall("click_up_event",
                                                 Responded(ui.is_clicked_objects, resp)))]
       ELSE ui' = [ui EXCEPT !.phase = "panicked"]
    /\ UIUnchanged

click_up_event(pos) ==
    /\ UIReady
    /\ IF \A i \in 1..Len(ui.is_clicked_objects) :
              ui.is_clicked_objects[i] \in DOMAIN ui.ui_elements
       THEN \E resp \in [1..Len(ui.is_clicked_objects) -> BOOLEAN] :
               ui' = [ui EXCEPT
                        !.is_clicked_objects = <<>>,
                        !.log = Append(@, UICall("click_up_event",
                                                 Responded(ui.is_clicked_objects, resp)))]
       ELSE ui' = [ui EXCEPT !.phase = "panicked"]
    /\ UIUnchanged

NextUI ==
    \/ \E ui_element \in BoundingBoxes : add_new_ui_element(ui_element)
    \/ \E pos \in Positions : click_down_event(pos)
    \/ \E pos \in Positions : click_up_event(pos)

SpecUI == InitUI /\ [][NextUI]_vars

\* ------------------------------------------------------------------ C23
UICalls(op) == SelectSeq(ui.log, LAMBDA c : c.op = op)

Elems(seq) == {seq[i] : i \in 1..Len(seq)}

\* The tokens click_down_event recorded after the last click_up_event
\* before call j.
RecordedBefore(j) ==
    UNION {Elems(ui.log[d].out) :
              d \in {n \in 1..(j - 1) :
                        /\ ui.log[n].op = "click_down_event"
                        /\ ~\E u \in (n + 1)..(j - 1) : ui.log[u].op = "click_up_event"}}

\* C23: the tokens add_new_ui_element returned are 1, 2, 3, ... and so
\* pairwise distinct; every token in is_clicked_objects is a key of
\* ui_elements, so the lookup of click_up_event never fails; click_up_event
\* returns only tokens click_down_event recorded since the previous
\* click_up_event, and leaves is_clicked_objects empty.
C23_UIEngineTokens ==
    /\ \A i \in 1..Len(UICalls("add_new_ui_element")) :
          UICalls("add_new_ui_element")[i].out = <<i>>
    /\ ui.phase # "panicked"
    /\ Elems(ui.is_clicked_objects) \subseteq DOMAIN ui.ui_elements
    /\ \A j \in 1..Len(ui.log) :
          ui.log[j].op = "click_up_event" => Elems(ui.log[j].out) \subseteq RecordedBefore(j)
    /\ (ui.log # <<>> /\ ui.log[Len(ui.log)].op = "click_up_event") =>
          ui.is_clicked_objects = <<>>

\* Two elements were registered, one click went down on both, and the
\* click_up that followed returned one of them.
C23_Witness ==
    /\ Len(ui.log) = 4
    /\ ui.log[1].op = "add_new_ui_element" /\ ui.log[2].op = "add_new_ui_element"
    /\ ui.log[3].op = "click_down_event" /\ Len(ui.log[3].out) = 2
    /\ ui.log[4].op = "click_up_event" /\ Len(ui.log[4].out) = 1
    /\ ui.is_clicked_objects = <<>>

====
